---- MODULE Spec2Model ----
(***************************************************************************)
(* A model of fault's SpiceTarget (src/fault/spice_target.py): the         *)
(* compilation of a list of test actions into per-port stimulus, timed     *)
(* checks and prints, the netlist/simulator pipeline of run(), and the     *)
(* interpretation of the simulation results.                               *)
(*                                                                         *)
(* Time is counted in units of 0.1 ns, voltages in units of 0.1 V and the  *)
(* relative thresholds vil_rel / vih_rel in tenths, so that every          *)
(* quantity of the program is an integer here.                             *)
(*                                                                         *)
(* A port name is the sequence of its dot-separated components: the flat   *)
(* name a is <<"a">>, the hierarchical name x.y is <<"x", "y">>.           *)
(***************************************************************************)
EXTENDS Integers, Sequences, FiniteSets, TLC

VARIABLES
    kwargs,       \* the arguments __init__ was called with, <<>> before the call
    self,         \* the attributes of the SpiceTarget object (name -> value)
    dir_exists,   \* the working directory has been created
    tb_written,   \* the netlist written to the test bench file, <<>> if none
    cmds_run,     \* the simulator commands executed so far, in order
    exit_codes,   \* the exit code of each command executed so far
    pc,           \* position of the caller in __init__ / run / compile_actions
    err,          \* the exception that was raised, "" if none
    actions,      \* the action list handed to run / compile_actions
    _actions,     \* compile_actions: the list after bus expansion (_actions)
    idx,          \* compile_actions: index of the next action of the loop
    t,            \* compile_actions: the virtual clock
    pwc_dict,     \* compile_actions: port name -> <<voltage steps, switch steps>>
    checks,       \* compile_actions: recorded <<t, Expect>> pairs
    prints,       \* compile_actions: recorded <<t, Print>> pairs
    saves,        \* compile_actions: names of the signals to record
    comp,         \* the CompiledSpiceActions returned, <<>> if none
    sim_cmds,     \* run: the command list of the configured simulator
    results,      \* run: the names of the signals of the parsed results
    printed,      \* print_results: the prints rendered so far
    nchecked,     \* check_results: number of checks that have passed
    last,         \* impl_expect: the last evaluation (sampled, decoded, outcome)
    first         \* the caller's record of a first compile_actions, <<>> if none

vars == <<kwargs, self, dir_exists, tb_written, cmds_run, exit_codes, pc, err, actions, _actions,
          idx, t, pwc_dict, checks, prints, saves, comp, sim_cmds, results,
          printed, nchecked, last, first>>

compileVars == <<_actions, idx, t, pwc_dict, checks, prints, saves>>
envVars == <<dir_exists, tb_written, cmds_run, exit_codes>>
resultVars == <<sim_cmds, results, printed, nchecked, last>>

----------------------------------------------------------------------------
(* Bounds of the model *)

\* longest action list handed to compile_actions
MaxActions == 2
\* width of the bus port b of the circuit under test
BusWidth == 2
\* longest action list handed to run
MaxRunActions == 3

----------------------------------------------------------------------------
(* Optional values: None is <<>>, a given value x is <<x>> *)

None == <<>>
Some(x) == <<x>>

\* fault.HiZ and the ordinary values an action carries
HiZ == [hiz |-> TRUE, n |-> 0]
Val(n) == [hiz |-> FALSE, n |-> n]

RECURSIVE Pow2(_)
Pow2(k) == IF k = 0 THEN 1 ELSE 2 * Pow2(k - 1)

RECURSIVE Flatten(_)
Flatten(ss) == IF ss = <<>> THEN <<>> ELSE Head(ss) \o Flatten(Tail(ss))

Range(s) == {s[i] : i \in DOMAIN s}

----------------------------------------------------------------------------
(* Default settings of the constructor *)

\* clock_step_delay=5, in ns
clock_step_delay == 5
\* the default step clock_step_delay * 1e-9, in units of 0.1 ns
DefaultStep == clock_step_delay * 10
\* t_tr=0.2e-9, in units of 0.1 ns
t_tr == 2
\* vsup=1.0, in units of 0.1 V
vsup == 10
\* vil_rel=0.4 and vih_rel=0.6, in tenths
vil_rel == 4
vih_rel == 6

Simulators == {"ngspice", "spectre", "hspice"}
BusDelims == {"<>", "[]", "_"}

----------------------------------------------------------------------------
(* Ports and actions *)

BitType(name) == [name |-> name, type |-> "Bit", len |-> 1]
BitsType(name, n) == [name |-> name, type |-> "Bits", len |-> n]
RealType(name) == [name |-> name, type |-> "Real", len |-> 1]

PortA == BitType(<<"a">>)
PortB == BitsType(<<"b">>, BusWidth)
PortV == RealType(<<"v">>)
\* a signal inside the circuit, named by its hierarchical path x.y
PortXY == RealType(<<"x", "y">>)

Poke(port, value, delay) ==
    [kind |-> "Poke", port |-> port, value |-> value, delay |-> delay]
Expect(port, value, above, below) ==
    [kind |-> "Expect", port |-> port, value |-> value,
     above |-> above, below |-> below, strict |-> FALSE]
PrintOf(ports) == [kind |-> "Print", ports |-> ports]
Delay(time) == [kind |-> "Delay", time |-> time]
\* an action of another kind (fault's Step, Eval, ...) that has no rule here
Other == [kind |-> "Other"]

\* the circuits under test: their name and their interface, in the order
\* the ports were declared
CircuitScalar == [name |-> "amp", ports |-> <<PortV, PortA>>]
CircuitBus == [name |-> "reg", ports |-> <<PortV, PortB, PortA>>]

----------------------------------------------------------------------------
(* SpiceTarget.__init__ *)

\* the keyword arguments of the constructor with their default values
DefaultArgs ==
    [circuit |-> CircuitBus, directory |-> "build/", simulator |-> "ngspice",
     vsup |-> vsup, clock_step_delay |-> clock_step_delay, t_tr |-> t_tr,
     vil_rel |-> vil_rel, vih_rel |-> vih_rel, conn_order |-> "alpha",
     bus_delim |-> "<>", bus_order |-> "descend", flags |-> None]

\* the object before __init__ has set anything
NoAttrs == <<>>

\* super().__init__(circuit): the base constructor binds the circuit, which
\* get_alpha_ordered_ports and write_test_bench read as self.circuit
TargetInit(circuit) == [circuit |-> circuit]

\* lines 99-117: the settings saved on the object
Settings(args) ==
    [directory |-> args.directory, simulator |-> args.simulator,
     vsup |-> args.vsup, clock_step_delay |-> args.clock_step_delay,
     t_tr |-> args.t_tr, vil_rel |-> args.vil_rel, vih_rel |-> args.vih_rel,
     conn_order |-> args.conn_order, bus_delim |-> args.bus_delim,
     bus_order |-> args.bus_order,
     flags |-> IF args.flags # None THEN args.flags[1] ELSE <<>>]

\* a sanity check that lets every simulator name through
SimulatorSupported_any(sim) == TRUE

\* line 93: the sanity check of the simulator name
SimulatorSupported(sim) == sim \in Simulators

\* lines 89-117
SpiceTargetInit(args) ==
    /\ pc = "new"
    /\ kwargs' = args
    /\ IF ~SimulatorSupported(args.simulator)
       THEN /\ self' = TargetInit(args.circuit)
            /\ pc' = "raised"
            /\ err' = "ValueError"
            /\ dir_exists' = dir_exists
       ELSE /\ self' = TargetInit(args.circuit) @@ Settings(args)
            /\ pc' = "ready"
            /\ err' = err
            /\ dir_exists' = TRUE
    /\ UNCHANGED <<first, tb_written, cmds_run, exit_codes, actions, comp>>
    /\ UNCHANGED compileVars
    /\ UNCHANGED resultVars

----------------------------------------------------------------------------
(* SpiceTarget.bit_from_bus and SpiceTarget.expand_bus *)

\* the name with a suffix appended to its last component
Suffixed(name, suffix) ==
    [name EXCEPT ![Len(name)] = @ \o suffix]

\* bit_from_bus raises for a delimiter that is none of the three styles
bit_from_bus_raises(delim) == delim \notin BusDelims

bit_from_bus(delim, port, k) ==
    IF delim = "<>" THEN Suffixed(port.name, "<" \o ToString(k) \o ">")
    ELSE IF delim = "[]" THEN Suffixed(port.name, "[" \o ToString(k) \o "]")
    ELSE Suffixed(port.name, "_" \o ToString(k))

\* a bit access that counts the bits from the most significant one
get_value_at_bit_msb_first(action, k) ==
    IF action.value.hiz THEN HiZ
    ELSE Val(((action.value.n % Pow2(action.port.len))
                \div Pow2(action.port.len - 1 - k)) % 2)

\* bit k of the value taken as a word of n bits (BitVector[n](value)[k])
get_value_at_bit(action, k) ==
    IF action.value.hiz THEN HiZ
    ELSE Val(((action.value.n % Pow2(action.port.len)) \div Pow2(k)) % 2)

\* an expansion that lists the bits from the highest index down
expand_bus_descending(delim, action) ==
    [i \in 1..action.port.len |->
        [action EXCEPT !.port = BitType(bit_from_bus(delim, action.port,
                                                     action.port.len - i)),
                       !.value = get_value_at_bit(action, action.port.len - i)]]

\* an expansion whose N entries are one and the same record, left as the
\* last bit made it
expand_bus_aliased(delim, action) ==
    [i \in 1..action.port.len |->
        [action EXCEPT !.port = BitType(bit_from_bus(delim, action.port,
                                                     action.port.len - 1)),
                       !.value = get_value_at_bit(action, action.port.len - 1)]]

\* the list of single-bit actions, for k = 0, 1, ..., len(port) - 1
expand_bus(delim, action) ==
    [i \in 1..action.port.len |->
        [action EXCEPT !.port = BitType(bit_from_bus(delim, action.port, i - 1)),
                       !.value = get_value_at_bit(action, i - 1)]]

\* the test of compile_actions for an action that is expanded
IsBusAction(action) ==
    /\ action.kind \in {"Poke", "Expect"}
    /\ action.port.type = "Bits"

\* the actions after the expansion loop of compile_actions
ExpandAll(delim, acts) ==
    Flatten([i \in DOMAIN acts |->
                IF IsBusAction(acts[i]) THEN expand_bus(delim, acts[i])
                ELSE <<acts[i]>>])

\* the expansion loop raises when it reaches bit_from_bus with a bad delimiter
ExpandRaises(delim, acts) ==
    \E i \in DOMAIN acts :
        /\ IsBusAction(acts[i])
        /\ acts[i].port.len > 0
        /\ bit_from_bus_raises(delim)

----------------------------------------------------------------------------
(* SpiceTarget.compile_actions *)

NoComp == <<>>
NoLast == <<>>
NoFirst == <<>>

\* lines 186-201: initialise the locals and expand the buses
CompileActionsBegin(acts) ==
    /\ pc = "ready"
    /\ actions' = acts
    /\ t' = 0
    /\ pwc_dict' = <<>>
    /\ checks' = <<>>
    /\ prints' = <<>>
    /\ saves' = {}
    /\ idx' = 1
    /\ IF ExpandRaises(self.bus_delim, acts)
       THEN /\ pc' = "raised"
            /\ err' = "UnknownBusDelimiter"
            /\ _actions' = <<>>
       ELSE /\ pc' = "loop"
            /\ err' = err
            /\ _actions' = ExpandAll(self.bus_delim, acts)
    /\ UNCHANGED <<first, kwargs, self, comp>>
    /\ UNCHANGED envVars
    /\ UNCHANGED resultVars

\* a stimulus that passes the value through on every port
stim_v_raw(action) == IF action.value.hiz THEN 0 ELSE action.value.n

\* lines 213-221: the stimulus value of a Poke
stim_v(action) ==
    IF action.value.hiz THEN 0
    ELSE IF action.port.type = "Bit"
         THEN (IF action.value.n # 0 THEN self.vsup ELSE 0)
         ELSE action.value.n

\* a switch state that keeps the driver connected whatever the value
stim_s_closed(action) == 1

\* lines 213-221: the switch state of a Poke
stim_s(action) == IF action.value.hiz THEN 0 ELSE 1

\* a clock that runs backwards by the default step
PokeAdvance_backwards(action, now) == now - self.clock_step_delay * 10

\* lines 226-229: the time after the Poke
PokeAdvance(action, now) ==
    IF action.delay = None THEN now + self.clock_step_delay * 10
    ELSE now + action.delay[1]

\* accumulators whose switch list grows only when the switch state changes
PokeAppend_switch_on_change(dict, name, now, v, s) ==
    LET old == IF name \in DOMAIN dict THEN dict[name] ELSE <<<<>>, <<>>>>
        sw == IF old[2] # <<>> /\ old[2][Len(old[2])][2] = s THEN old[2]
              ELSE Append(old[2], <<now, s>>)
        new == <<Append(old[1], <<now, v>>), sw>>
    IN  [n \in (DOMAIN dict) \cup {name} |-> IF n = name THEN new ELSE dict[n]]

\* lines 208-209 and 223-224: the accumulators after appending the two steps
PokeAppend(dict, name, now, v, s) ==
    LET old == IF name \in DOMAIN dict THEN dict[name] ELSE <<<<>>, <<>>>>
        new == <<Append(old[1], <<now, v>>), Append(old[2], <<now, s>>)>>
    IN  [n \in (DOMAIN dict) \cup {name} |-> IF n = name THEN new ELSE dict[n]]

\* lines 205-229
LoopPoke ==
    /\ pc = "loop"
    /\ idx <= Len(_actions)
    /\ _actions[idx].kind = "Poke"
    /\ LET action == _actions[idx] IN
        /\ pwc_dict' = PokeAppend(pwc_dict, action.port.name, t,
                                  stim_v(action), stim_s(action))
        /\ t' = PokeAdvance(action, t)
    /\ idx' = idx + 1
    /\ UNCHANGED <<first, kwargs, self, pc, err, actions, _actions, checks, prints, saves, comp>>
    /\ UNCHANGED envVars
    /\ UNCHANGED resultVars

\* an Expect that advances the clock by the default step
LoopExpect_advancing ==
    /\ pc = "loop"
    /\ idx <= Len(_actions)
    /\ _actions[idx].kind = "Expect"
    /\ checks' = Append(checks, <<t, _actions[idx]>>)
    /\ saves' = saves \cup {_actions[idx].port.name}
    /\ t' = t + self.clock_step_delay * 10
    /\ idx' = idx + 1
    /\ UNCHANGED <<first, kwargs, self, pc, err, actions, _actions, pwc_dict, prints, comp>>
    /\ UNCHANGED envVars
    /\ UNCHANGED resultVars

\* lines 230-232
LoopExpect ==
    /\ pc = "loop"
    /\ idx <= Len(_actions)
    /\ _actions[idx].kind = "Expect"
    /\ checks' = Append(checks, <<t, _actions[idx]>>)
    /\ saves' = saves \cup {_actions[idx].port.name}
    /\ idx' = idx + 1
    /\ UNCHANGED <<first, kwargs, self, pc, err, actions, _actions, t, pwc_dict, prints, comp>>
    /\ UNCHANGED envVars
    /\ UNCHANGED resultVars

\* a Print that records only its first port
print_saves_first(action) == {action.ports[1].name}

\* lines 235-236: the names a Print adds to the recorded signals
print_saves(action) == {p.name : p \in Range(action.ports)}

\* lines 233-236
LoopPrint ==
    /\ pc = "loop"
    /\ idx <= Len(_actions)
    /\ _actions[idx].kind = "Print"
    /\ prints' = Append(prints, <<t, _actions[idx]>>)
    /\ saves' = saves \cup print_saves(_actions[idx])
    /\ idx' = idx + 1
    /\ UNCHANGED <<first, kwargs, self, pc, err, actions, _actions, t, pwc_dict, checks, comp>>
    /\ UNCHANGED envVars
    /\ UNCHANGED resultVars

\* lines 237-238
LoopDelay ==
    /\ pc = "loop"
    /\ idx <= Len(_actions)
    /\ _actions[idx].kind = "Delay"
    /\ t' = t + _actions[idx].time
    /\ idx' = idx + 1
    /\ UNCHANGED <<first, kwargs, self, pc, err, actions, _actions, pwc_dict, checks, prints,
                   saves, comp>>
    /\ UNCHANGED envVars
    /\ UNCHANGED resultVars

\* a loop that skips an action it has no rule for
LoopOther_skip ==
    /\ pc = "loop"
    /\ idx <= Len(_actions)
    /\ _actions[idx].kind \notin {"Poke", "Expect", "Print", "Delay"}
    /\ idx' = idx + 1
    /\ UNCHANGED <<first, kwargs, self, pc, err, actions, _actions, t, pwc_dict, checks,
                   prints, saves, comp>>
    /\ UNCHANGED envVars
    /\ UNCHANGED resultVars

\* lines 239-240
LoopOther ==
    /\ pc = "loop"
    /\ idx <= Len(_actions)
    /\ _actions[idx].kind \notin {"Poke", "Expect", "Print", "Delay"}
    /\ pc' = "raised"
    /\ err' = "NotImplementedError"
    /\ UNCHANGED <<first, kwargs, self, actions, _actions, idx, t, pwc_dict, checks, prints,
                   saves, comp>>
    /\ UNCHANGED envVars
    /\ UNCHANGED resultVars

\* fault.pwl.pwc_to_pwl: the piecewise-linear waveform of a list of steps.
\* The first level is held from time 0 (the init value when the first step
\* is later than 0); between two distinct levels a ramp of duration ttr
\* starts at the step's time; the last level is held until t_stop.
RECURSIVE pwl_ramps(_, _, _)
pwl_ramps(pwc, k, ttr) ==
    IF k > Len(pwc) THEN <<>>
    ELSE (IF pwc[k - 1][2] # pwc[k][2]
          THEN << <<pwc[k][1], pwc[k - 1][2]>>, <<pwc[k][1] + ttr, pwc[k][2]>> >>
          ELSE <<>>)
         \o pwl_ramps(pwc, k + 1, ttr)

pwc_to_pwl(pwc, t_stop, ttr, init) ==
    LET steps == IF pwc[1][1] # 0 THEN << <<0, init>> >> \o pwc ELSE pwc
    IN  << steps[1] >> \o pwl_ramps(steps, 2, ttr)
            \o << <<t_stop, steps[Len(steps)][2]>> >>

\* lines 24-30
CompiledSpiceActions(pwls, cks, prs, stop_time, svs) ==
    [pwls |-> pwls, checks |-> cks, prints |-> prs,
     stop_time |-> stop_time, saves |-> svs]

\* a return that hands pwc_to_pwl the transition time and the stop time swapped
CompileActionsReturn_swapped ==
    /\ pc = "loop"
    /\ idx > Len(_actions)
    /\ comp' = CompiledSpiceActions(
                 [name \in DOMAIN pwc_dict |->
                     << pwc_to_pwl(pwc_dict[name][1], self.t_tr, t, 0),
                        pwc_to_pwl(pwc_dict[name][2], self.t_tr, t, 1) >>],
                 checks, prints, t, saves)
    /\ pc' = "compiled"
    /\ UNCHANGED <<first, kwargs, self, err, actions>>
    /\ UNCHANGED compileVars
    /\ UNCHANGED envVars
    /\ UNCHANGED resultVars

\* lines 242-257: the loop is over, build the waveforms and return
CompileActionsReturn ==
    /\ pc = "loop"
    /\ idx > Len(_actions)
    /\ comp' = CompiledSpiceActions(
                 [name \in DOMAIN pwc_dict |->
                     << pwc_to_pwl(pwc_dict[name][1], t, self.t_tr, 0),
                        pwc_to_pwl(pwc_dict[name][2], t, self.t_tr, 1) >>],
                 checks, prints, t, saves)
    /\ pc' = "compiled"
    /\ UNCHANGED <<first, kwargs, self, err, actions>>
    /\ UNCHANGED compileVars
    /\ UNCHANGED envVars
    /\ UNCHANGED resultVars

----------------------------------------------------------------------------
(* SpiceTarget.get_ordered_ports and SpiceTarget.write_test_bench *)

\* the port names of the model in lexical order, the order sorted() gives
NameOrder == << <<"a">>, <<"b">>, <<"v">> >>

NameRank(name) == CHOOSE i \in DOMAIN NameOrder : NameOrder[i] = name

\* sorted(port_names, key=lambda p: f'{p}')
SortedPorts(ports) ==
    CHOOSE s \in [1..Len(ports) -> Range(ports)] :
        /\ Range(s) = Range(ports)
        /\ \A i, j \in DOMAIN s : i < j => NameRank(s[i].name) < NameRank(s[j].name)

\* lines 293-300: the bits of one bus, or the error raised on the way
BusPortNames(port) ==
    IF self.bus_order \notin {"ascend", "descend"}
    THEN [raised |-> "UnsupportedBusOrder", names |-> <<>>]
    ELSE IF port.len > 0 /\ bit_from_bus_raises(self.bus_delim)
    THEN [raised |-> "UnknownBusDelimiter", names |-> <<>>]
    ELSE [raised |-> "",
          names |-> [i \in 1..port.len |->
                        bit_from_bus(self.bus_delim, port,
                                     IF self.bus_order = "ascend" THEN i - 1
                                     ELSE port.len - i)]]

\* lines 287-303: the loop over the sorted ports, stopped by the first error
RECURSIVE AlphaExpand(_)
AlphaExpand(ports) ==
    IF ports = <<>> THEN [raised |-> "", names |-> <<>>]
    ELSE LET port == Head(ports)
             this == IF port.type \in {"Bit", "Real", "Elect"}
                     THEN [raised |-> "", names |-> <<port.name>>]
                     ELSE BusPortNames(port)
             rest == AlphaExpand(Tail(ports))
         IN  IF this.raised # "" THEN this
             ELSE IF rest.raised # "" THEN rest
             ELSE [raised |-> "", names |-> this.names \o rest.names]

\* a port list that keeps the order the ports were declared in
get_alpha_ordered_ports_declared == AlphaExpand(self.circuit.ports)

\* lines 281-303
get_alpha_ordered_ports == AlphaExpand(SortedPorts(self.circuit.ports))

\* lines 263-269
get_ordered_ports ==
    IF self.conn_order = "alpha" THEN get_alpha_ordered_ports
    ELSE IF self.conn_order = "parse"
    THEN [raised |-> "ParseNotImplemented", names |-> <<>>]
    ELSE [raised |-> "UnknownConnOrder", names |-> <<>>]

\* line 379: the path of the test bench file
TbFile == self.directory \o self.circuit.name \o "_tb.sp"

\* lines 306-375: the netlist of the test bench
Netlist(ordered) ==
    [file |-> TbFile, dut |-> self.circuit.name, ports |-> ordered,
     stimuli |-> DOMAIN comp.pwls, probes |-> comp.saves,
     t_stop |-> comp.stop_time,
     control |-> IF self.simulator = "ngspice" THEN "control"
                 ELSE IF self.simulator = "hspice" THEN "post" ELSE ""]

NoNetlist == <<>>

\* a test bench that is written before the ports are ordered
WriteTestBench_writes_first ==
    /\ pc = "compiled"
    /\ LET ordered == get_ordered_ports IN
        /\ tb_written' = Netlist(ordered.names)
        /\ IF ordered.raised # ""
           THEN pc' = "raised" /\ err' = ordered.raised
           ELSE pc' = "written" /\ err' = err
    /\ UNCHANGED <<first, kwargs, self, dir_exists, cmds_run, exit_codes, actions, comp>>
    /\ UNCHANGED compileVars
    /\ UNCHANGED resultVars

\* lines 305-384, called at line 124 of run
WriteTestBench ==
    /\ pc = "compiled"
    /\ LET ordered == get_ordered_ports IN
        IF ordered.raised # ""
        THEN /\ pc' = "raised"
             /\ err' = ordered.raised
             /\ tb_written' = tb_written
        ELSE /\ pc' = "written"
             /\ err' = err
             /\ tb_written' = Netlist(ordered.names)
    /\ UNCHANGED <<first, kwargs, self, dir_exists, cmds_run, exit_codes, actions, comp>>
    /\ UNCHANGED compileVars
    /\ UNCHANGED resultVars

----------------------------------------------------------------------------
(* The simulator commands *)

RawFile == self.directory \o "out.raw"

\* a command that puts the extra flags before its own arguments
ngspice_cmds_flags_first(tb_file) ==
    [cmds |-> << self.flags \o <<"ngspice", "-b", tb_file, "-r", RawFile>> >>,
     raw_file |-> RawFile]

\* lines 427-438
ngspice_cmds(tb_file) ==
    [cmds |-> << <<"ngspice", "-b", tb_file, "-r", RawFile>> \o self.flags >>,
     raw_file |-> RawFile]

\* lines 440-451
spectre_cmds(tb_file) ==
    [cmds |-> << <<"spectre", tb_file, "-format", "nutascii", "-raw", RawFile>>
                    \o self.flags >>,
     raw_file |-> RawFile]

\* a command list without the conversion command
hspice_cmds_single(tb_file) ==
    [cmds |-> << <<"hspice", "-i", tb_file, "-o", RawFile>> \o self.flags >>,
     raw_file |-> self.directory \o "out.psf"]

\* lines 453-473
hspice_cmds(tb_file) ==
    [cmds |-> << <<"hspice", "-i", tb_file, "-o", RawFile>> \o self.flags,
                 <<"converter", "-t", "PSF", "-i", RawFile \o ".tr0",
                   "-o", self.directory \o "out", "-a">> >>,
     raw_file |-> self.directory \o "out.psf"]

\* lines 126-134 of run
GenerateCmds ==
    /\ pc = "written"
    /\ sim_cmds' = (IF self.simulator = "ngspice" THEN ngspice_cmds(tb_written.file)
                    ELSE IF self.simulator = "spectre"
                    THEN spectre_cmds(tb_written.file)
                    ELSE hspice_cmds(tb_written.file)).cmds
    /\ pc' = "simulating"
    /\ UNCHANGED <<first, kwargs, self, err, actions, comp, results, printed, nchecked, last>>
    /\ UNCHANGED compileVars
    /\ UNCHANGED envVars

\* a loop that runs the next command whatever the exit code of this one
RunSimCmd_ignoring_exit(exit_code) ==
    /\ pc = "simulating"
    /\ Len(cmds_run) < Len(sim_cmds)
    /\ cmds_run' = Append(cmds_run, sim_cmds[Len(cmds_run) + 1])
    /\ exit_codes' = Append(exit_codes, exit_code)
    /\ UNCHANGED <<first, kwargs, self, dir_exists, tb_written, pc, err, actions, comp>>
    /\ UNCHANGED compileVars
    /\ UNCHANGED resultVars

\* lines 137-138 of run: one command is run; a nonzero exit raises
RunSimCmd(exit_code) ==
    /\ pc = "simulating"
    /\ Len(cmds_run) < Len(sim_cmds)
    /\ cmds_run' = Append(cmds_run, sim_cmds[Len(cmds_run) + 1])
    /\ exit_codes' = Append(exit_codes, exit_code)
    /\ IF exit_code # 0
       THEN pc' = "raised" /\ err' = "CalledProcessError"
       ELSE pc' = pc /\ err' = err
    /\ UNCHANGED <<first, kwargs, self, dir_exists, tb_written, actions, comp>>
    /\ UNCHANGED compileVars
    /\ UNCHANGED resultVars

\* lines 140-146 of run: the raw file is parsed; the results hold the signals
\* the netlist asked the simulator to record
ParseResults ==
    /\ pc = "simulating"
    /\ Len(cmds_run) = Len(sim_cmds)
    /\ results' = tb_written.probes
    /\ pc' = "parsed"
    /\ UNCHANGED <<first, kwargs, self, err, actions, comp, sim_cmds, printed, nchecked, last>>
    /\ UNCHANGED compileVars
    /\ UNCHANGED envVars

----------------------------------------------------------------------------
(* The interpretation of the results *)

\* a run that goes on to the checks without rendering the prints
PrintResults_skipped ==
    /\ pc = "parsed"
    /\ pc' = "checking"
    /\ UNCHANGED <<first, kwargs, self, err, actions, comp>>
    /\ UNCHANGED compileVars
    /\ UNCHANGED envVars
    /\ UNCHANGED resultVars

\* lines 417-425, called at line 149 of run: every print is rendered in order
PrintResults ==
    /\ pc = "parsed"
    /\ printed' = [i \in DOMAIN comp.prints |->
                     <<comp.prints[i][1],
                       [j \in DOMAIN comp.prints[i][2].ports |->
                           comp.prints[i][2].ports[j].name]>>]
    /\ pc' = "checking"
    /\ UNCHANGED <<first, kwargs, self, err, actions, comp, sim_cmds, results, nchecked, last>>
    /\ UNCHANGED compileVars
    /\ UNCHANGED envVars

\* line 388: the name looked up in the results, the last dot-separated component
ResultName(port) == << port.name[Len(port.name)] >>

\* a conversion whose thresholds are exclusive
a2d_strict(value) ==
    IF value * 10 < self.vil_rel * self.vsup THEN [raised |-> FALSE, value |-> 0]
    ELSE IF value * 10 > self.vih_rel * self.vsup THEN [raised |-> FALSE, value |-> 1]
    ELSE [raised |-> TRUE, value |-> value]

\* a conversion whose high threshold alone is exclusive
a2d_high_exclusive(value) ==
    IF value * 10 <= self.vil_rel * self.vsup THEN [raised |-> FALSE, value |-> 0]
    ELSE IF value * 10 > self.vih_rel * self.vsup THEN [raised |-> FALSE, value |-> 1]
    ELSE [raised |-> TRUE, value |-> value]

\* a conversion that rounds to the nearer threshold and never raises
a2d_rounding(value) ==
    IF value * 20 < (self.vil_rel + self.vih_rel) * self.vsup
    THEN [raised |-> FALSE, value |-> 0]
    ELSE [raised |-> FALSE, value |-> 1]

\* lines 393-399: the analog to digital conversion of a sampled value
a2d(value) ==
    IF value * 10 <= self.vil_rel * self.vsup THEN [raised |-> FALSE, value |-> 0]
    ELSE IF value * 10 >= self.vih_rel * self.vsup THEN [raised |-> FALSE, value |-> 1]
    ELSE [raised |-> TRUE, value |-> value]

\* lines 393-399: only a single digital bit is converted
Converted(port, value) ==
    IF port.type = "Bit" THEN a2d(value) ELSE [raised |-> FALSE, value |-> value]

\* a check that compares the expected value as well as the bounds
CheckHolds_and_value(action, value) ==
    /\ action.above # None => action.above[1] <= value
    /\ action.below # None => value <= action.below[1]
    /\ ~action.value.hiz /\ value = action.value.n

\* lines 401-411: the condition the assert statement tests
CheckHolds(action, value) ==
    IF action.above # None
    THEN IF action.below # None
         THEN action.above[1] <= value /\ value <= action.below[1]
         ELSE action.above[1] <= value
    ELSE IF action.below # None
         THEN value <= action.below[1]
         ELSE ~action.value.hiz /\ value = action.value.n

\* lines 386-411: the outcome of one check on a sampled value
impl_expect(time, action, sampled) ==
    LET conv == Converted(action.port, sampled) IN
    [time |-> time, action |-> action, port |-> action.port, sampled |-> sampled,
     value |-> conv.value,
     outcome |-> IF ResultName(action.port) \notin results THEN "KeyError"
                 ELSE IF conv.raised THEN "A2DError"
                 ELSE IF CheckHolds(action, conv.value) THEN "pass"
                 ELSE "AssertionError"]

\* the voltages a signal is sampled at, in units of 0.1 V
Voltages == {0, 4, 5, 6, 10}

\* a loop that notes a failed check and goes on to the next one
CheckResultsStep_continuing(sampled) ==
    /\ pc = "checking"
    /\ nchecked < Len(comp.checks)
    /\ LET check == comp.checks[nchecked + 1]
           res == impl_expect(check[1], check[2], sampled)
       IN  /\ last' = res
           /\ nchecked' = nchecked + 1
           /\ err' = IF res.outcome = "pass" THEN err ELSE res.outcome
    /\ UNCHANGED <<first, kwargs, self, pc, actions, comp, sim_cmds, results, printed>>
    /\ UNCHANGED compileVars
    /\ UNCHANGED envVars

\* lines 413-415, called at line 152 of run: the next check is evaluated
CheckResultsStep(sampled) ==
    /\ pc = "checking"
    /\ nchecked < Len(comp.checks)
    /\ LET check == comp.checks[nchecked + 1]
           res == impl_expect(check[1], check[2], sampled)
       IN  /\ last' = res
           /\ IF res.outcome = "pass"
              THEN nchecked' = nchecked + 1 /\ pc' = pc /\ err' = err
              ELSE nchecked' = nchecked /\ pc' = "raised" /\ err' = res.outcome
    /\ UNCHANGED <<first, kwargs, self, actions, comp, sim_cmds, results, printed>>
    /\ UNCHANGED compileVars
    /\ UNCHANGED envVars

\* line 152 of run: every check has passed and run returns
RunReturn ==
    /\ pc = "checking"
    /\ nchecked = Len(comp.checks)
    /\ pc' = "done"
    /\ UNCHANGED <<first, kwargs, self, err, actions, comp>>
    /\ UNCHANGED compileVars
    /\ UNCHANGED envVars
    /\ UNCHANGED resultVars

----------------------------------------------------------------------------
(* The inputs of compile_actions *)

PokeActions ==
    {Poke(PortA, Val(1), None), Poke(PortA, HiZ, None),
     Poke(PortA, Val(0), Some(20)), Poke(PortA, Val(1), Some(-10)),
     Poke(PortA, Val(0), Some(1)), Poke(PortA, Val(2), None),
     Poke(PortB, Val(1), None), Poke(PortB, HiZ, Some(20)),
     Poke(PortV, Val(7), None)}

ExpectActions == {Expect(p, Val(1), None, None) : p \in {PortA, PortB, PortV}}

PrintActions == {PrintOf(<<PortA>>), PrintOf(<<PortV, PortB>>)}

DelayActions == {Delay(30), Delay(-10)}

ActionUniverse ==
    PokeActions \cup ExpectActions \cup PrintActions \cup DelayActions \cup {Other}

SeqsUpTo(S, n) == UNION {[1..k -> S] : k \in 0..n}

ActionLists == SeqsUpTo(ActionUniverse, MaxActions)

----------------------------------------------------------------------------
(* The specification of compile_actions alone: the object is constructed    *)
(* with one of the known bus delimiters and either bus order.               *)

InitCompile ==
    /\ \E delim \in BusDelims, order \in {"ascend", "descend"} :
          /\ kwargs = [DefaultArgs EXCEPT !.bus_delim = delim,
                                           !.bus_order = order]
          /\ self = TargetInit(kwargs.circuit) @@ Settings(kwargs)
    /\ dir_exists = TRUE
    /\ tb_written = NoNetlist
    /\ cmds_run = <<>>
    /\ exit_codes = <<>>
    /\ pc = "ready"
    /\ err = ""
    /\ actions = <<>>
    /\ _actions = <<>>
    /\ idx = 1
    /\ t = 0
    /\ pwc_dict = <<>>
    /\ checks = <<>>
    /\ prints = <<>>
    /\ saves = {}
    /\ comp = NoComp
    /\ sim_cmds = <<>>
    /\ results = {}
    /\ printed = <<>>
    /\ nchecked = 0
    /\ last = NoLast
    /\ first = NoFirst

\* the caller hands a list to compile_actions; a caller that has compiled
\* before hands the same list again
CompileBegin ==
    IF first = NoFirst
    THEN \E acts \in ActionLists : CompileActionsBegin(acts)
    ELSE CompileActionsBegin(actions)

\* lines 250-257: compile_actions has returned; the caller keeps the list it
\* handed over and the result, and is ready to call compile_actions again
CompileAgain ==
    /\ pc = "compiled"
    /\ first = NoFirst
    /\ first' = [actions |-> actions, comp |-> comp]
    /\ pc' = "ready"
    /\ UNCHANGED <<kwargs, self, err, actions, comp>>
    /\ UNCHANGED compileVars
    /\ UNCHANGED envVars
    /\ UNCHANGED resultVars

NextCompile ==
    \/ CompileBegin
    \/ LoopPoke
    \/ LoopExpect
    \/ LoopPrint
    \/ LoopDelay
    \/ LoopOther
    \/ CompileActionsReturn

SpecCompile == InitCompile /\ [][NextCompile]_vars

\* compile_actions called once, and then once more on the same list
NextCompileTwice ==
    \/ CompileBegin
    \/ LoopPoke
    \/ LoopExpect
    \/ LoopPrint
    \/ LoopDelay
    \/ LoopOther
    \/ CompileActionsReturn
    \/ CompileAgain

SpecCompileTwice == InitCompile /\ [][NextCompileTwice]_vars

----------------------------------------------------------------------------
(* The specification of the whole life of the object: the constructor,      *)
(* then run on a list of actions.                                           *)

CtorArgs ==
    {[DefaultArgs EXCEPT !.circuit = c, !.simulator = sim, !.flags = flgs] :
        c \in {CircuitScalar, CircuitBus},
        sim \in Simulators \cup {"xyce"},
        flgs \in {None, Some(<<"-mt", "4">>)}}
    \cup {[DefaultArgs EXCEPT !.circuit = c, !.conn_order = conn,
                              !.bus_delim = delim, !.bus_order = order] :
            c \in {CircuitScalar, CircuitBus},
            conn \in {"alpha", "parse", "netlist"},
            delim \in {"<>", "::"},
            order \in {"descend", "ascend", "random"}}

RunActions ==
    {Poke(PortA, Val(1), None), Poke(PortB, Val(2), None),
     Expect(PortA, Val(1), None, None), Expect(PortV, Val(5), Some(4), Some(6)),
     Expect(PortXY, Val(5), None, None),
     PrintOf(<<PortA>>), Delay(30), Other}

\* the signals inside the circuit an action may refer to
InternalSignals == {PortXY}

\* the ports an action refers to
PortsOf(action) ==
    IF action.kind \in {"Poke", "Expect"} THEN {action.port}
    ELSE IF action.kind = "Print" THEN Range(action.ports)
    ELSE {}

\* the lists of actions on the ports of the circuit
RunLists(circuit) ==
    SeqsUpTo({a \in RunActions :
                PortsOf(a) \subseteq Range(circuit.ports) \cup InternalSignals},
             MaxRunActions)

Init ==
    /\ kwargs = <<>>
    /\ self = NoAttrs
    /\ dir_exists = FALSE
    /\ tb_written = NoNetlist
    /\ cmds_run = <<>>
    /\ exit_codes = <<>>
    /\ pc = "new"
    /\ err = ""
    /\ actions = <<>>
    /\ _actions = <<>>
    /\ idx = 1
    /\ t = 0
    /\ pwc_dict = <<>>
    /\ checks = <<>>
    /\ prints = <<>>
    /\ saves = {}
    /\ comp = NoComp
    /\ sim_cmds = <<>>
    /\ results = {}
    /\ printed = <<>>
    /\ nchecked = 0
    /\ last = NoLast
    /\ first = NoFirst

Construct == \E args \in CtorArgs : SpiceTargetInit(args)

\* line 121 of run: run hands its actions to compile_actions
Run ==
    /\ pc = "ready"
    /\ \E acts \in RunLists(self.circuit) : CompileActionsBegin(acts)

Simulate == \E exit_code \in {0, 1} : RunSimCmd(exit_code)

CheckResults == \E sampled \in Voltages : CheckResultsStep(sampled)

Next ==
    \/ Construct
    \/ Run
    \/ LoopPoke
    \/ LoopExpect
    \/ LoopPrint
    \/ LoopDelay
    \/ LoopOther
    \/ CompileActionsReturn
    \/ WriteTestBench
    \/ GenerateCmds
    \/ Simulate
    \/ ParseResults
    \/ PrintResults
    \/ CheckResults
    \/ RunReturn

Spec == Init /\ [][Next]_vars

----------------------------------------------------------------------------
(* The specification of impl_expect alone: one recorded check is evaluated  *)
(* on every sampled voltage, for a range of supplies and thresholds.        *)

ExpectChecks ==
    {Expect(PortA, Val(v), None, None) : v \in {0, 1}}
    \cup {Expect(PortV, Val(5), None, None), Expect(PortV, Val(5), Some(4), Some(6))}
    \cup {Expect(PortV, Val(5), Some(6), None), Expect(PortV, Val(5), None, Some(4)),
          Expect(PortA, Val(0), Some(1), None)}

\* the supplies and the relative thresholds the object is constructed with:
\* the constructor accepts any number, a threshold of 1.0 or more and a
\* negative supply included
Supplies == {10, 18, -10}
LowThresholds == {2, 4, 6, 10}
HighThresholds == {4, 6, 8, 10, 12}

\* the voltages the checked signal is sampled at, in units of 0.1 V
SampledVoltages == -10..18

InitExpect ==
    /\ \E vs \in Supplies, vil \in LowThresholds, vih \in HighThresholds :
          kwargs = [DefaultArgs EXCEPT !.circuit = CircuitScalar, !.vsup = vs,
                                       !.vil_rel = vil, !.vih_rel = vih]
    /\ self = TargetInit(kwargs.circuit) @@ Settings(kwargs)
    /\ dir_exists = TRUE
    /\ \E e \in ExpectChecks : actions = <<e>>
    /\ _actions = actions
    /\ idx = 2
    /\ t = 0
    /\ pwc_dict = <<>>
    /\ checks = << <<0, actions[1]>> >>
    /\ prints = <<>>
    /\ saves = {actions[1].port.name}
    /\ comp = CompiledSpiceActions(<<>>, checks, prints, t, saves)
    /\ tb_written = Netlist(get_ordered_ports.names)
    /\ sim_cmds = ngspice_cmds(tb_written.file).cmds
    /\ cmds_run = sim_cmds
    /\ exit_codes = [i \in DOMAIN sim_cmds |-> 0]
    /\ results = tb_written.probes
    /\ printed = <<>>
    /\ nchecked = 0
    /\ last = NoLast
    /\ first = NoFirst
    /\ pc = "checking"
    /\ err = ""

CheckSampled == \E sampled \in SampledVoltages : CheckResultsStep(sampled)

NextExpect ==
    \/ CheckSampled
    \/ RunReturn

SpecExpect == InitExpect /\ [][NextExpect]_vars

----------------------------------------------------------------------------
(* Properties of compile_actions (checked under SpecCompile)                *)

AllPokes(acts) == \A i \in DOMAIN acts : acts[i].kind = "Poke"

\* the delay a Poke asks for: its explicit delay, else the default step
DelayOf(action) ==
    IF action.delay = None THEN DefaultStep ELSE action.delay[1]

RECURSIVE SumOfDelays(_)
SumOfDelays(acts) ==
    IF acts = <<>> THEN 0 ELSE DelayOf(Head(acts)) + SumOfDelays(Tail(acts))

\* C1: for a list of Pokes, the stop time returned by compile_actions is the
\* sum over the actions of the list of the explicit delay, else the default
\* step, however many ports or bits the Pokes touch.
C1_StopTimeIsSumOfDelays ==
    (pc = "compiled" /\ AllPokes(actions))
        => comp.stop_time = SumOfDelays(actions)

\* the characters a delimiter style puts before and after the bit index
DelimOpen(delim) ==
    CASE delim = "<>" -> "<" [] delim = "[]" -> "[" [] delim = "_" -> "_"
DelimClose(delim) ==
    CASE delim = "<>" -> ">" [] delim = "[]" -> "]" [] delim = "_" -> ""

\* the single-bit ports a bus action of width N stands for, listed in the
\* given bit order
BitPortsOf(action, delim, order) ==
    [j \in 1..action.port.len |->
        LET k == IF order = "ascend" THEN j - 1 ELSE action.port.len - j
        IN  [name |-> Suffixed(action.port.name,
                               DelimOpen(delim) \o ToString(k) \o DelimClose(delim)),
             type |-> "Bit", len |-> 1]]

NoPort == [name |-> <<"-">>, type |-> "-", len |-> 0]

\* the port of an action, NoPort for a Print, a Delay or another action
PortOrNone(action) ==
    IF action.kind \in {"Poke", "Expect"} THEN action.port ELSE NoPort

\* the ports of the list after expansion, with every bus in the given order
PortsAfterExpansion(acts, delim, order) ==
    Flatten([i \in DOMAIN acts |->
                IF acts[i].kind \in {"Poke", "Expect"} /\ acts[i].port.type = "Bits"
                THEN BitPortsOf(acts[i], delim, order)
                ELSE <<PortOrNone(acts[i])>>])

ExpandedPorts == [i \in DOMAIN _actions |-> PortOrNone(_actions[i])]

Expanded == pc \in {"loop", "compiled", "raised"}

\* C2 as stated: a bus Poke or Expect of width N yields exactly N single-bit
\* actions, one per bit index 0..N-1, named in the configured delimiter
\* style and listed in the bit order of the bus_order setting.
C2_ExpansionInBusOrder ==
    Expanded => ExpandedPorts
                  = PortsAfterExpansion(actions, self.bus_delim, self.bus_order)

\* C2 as amended: a bus Poke or Expect of width N yields exactly N single-bit
\* actions, one per bit index, named in the configured delimiter style and
\* listed in ascending bit index 0..N-1 whatever the bus_order setting.
C2_ExpansionAscending ==
    Expanded => ExpandedPorts
                  = PortsAfterExpansion(actions, self.bus_delim, "ascend")

C2_Witness ==
    /\ pc = "loop"
    /\ self.bus_order = "descend"
    /\ \E i \in DOMAIN actions : IsBusAction(actions[i])
    /\ Len(_actions) = Len(actions) + BusWidth - 1

\* the loop of compile_actions is about to take the Poke at idx
AtPoke ==
    /\ pc = "loop"
    /\ idx <= Len(_actions)
    /\ _actions[idx].kind = "Poke"

StepsOf(dict, name, which) ==
    IF name \in DOMAIN dict THEN dict[name][which] ELSE <<>>

\* C3: a Poke whose value is high impedance appends switch state 0 and
\* stimulus value 0 to the accumulators of its port at the current clock
\* time, whatever the port recorded before.
C3_HiZPokeOpensSwitch ==
    [][(AtPoke /\ _actions[idx].value.hiz /\ idx' = idx + 1)
        => LET name == _actions[idx].port.name IN
           /\ StepsOf(pwc_dict', name, 1)
                = Append(StepsOf(pwc_dict, name, 1), <<t, 0>>)
           /\ StepsOf(pwc_dict', name, 2)
                = Append(StepsOf(pwc_dict, name, 2), <<t, 0>>)]_vars

\* a port driven high and then released
C3_Witness ==
    \E name \in DOMAIN pwc_dict :
        /\ Len(pwc_dict[name][2]) = 2
        /\ pwc_dict[name][1][1][2] = vsup
        /\ pwc_dict[name][2][1][2] = 1
        /\ pwc_dict[name][1][2][2] = 0
        /\ pwc_dict[name][2][2][2] = 0

\* C6: after compile_actions returns, the port name of every recorded check
\* and of every port of every recorded print is in the saves set.
C6_ChecksAndPrintsAreSaved ==
    pc = "compiled" =>
        /\ \A i \in DOMAIN comp.checks : comp.checks[i][2].port.name \in comp.saves
        /\ \A i \in DOMAIN comp.prints :
              \A j \in DOMAIN comp.prints[i][2].ports :
                  comp.prints[i][2].ports[j].name \in comp.saves

C6_Witness ==
    /\ pc = "compiled"
    /\ comp.checks # <<>>
    /\ \E i \in DOMAIN comp.prints : Len(comp.prints[i][2].ports) = 2

\* the time of the last pair of a list of recorded pairs is at most stop
LastTimeAtMost(pairs, stop) ==
    pairs # <<>> => pairs[Len(pairs)][1] <= stop

NonNegativeDelays(acts) ==
    \A i \in DOMAIN acts :
        /\ (acts[i].kind = "Poke" /\ acts[i].delay # None) => acts[i].delay[1] >= 0
        /\ acts[i].kind = "Delay" => acts[i].time >= 0

\* C7 as stated: after compile_actions returns, stop_time is at least the
\* time of the last recorded check and of the last recorded print, for any
\* explicit Poke delay and any Delay duration.
C7_StopTimeCoversChecks ==
    pc = "compiled" =>
        /\ LastTimeAtMost(comp.checks, comp.stop_time)
        /\ LastTimeAtMost(comp.prints, comp.stop_time)

\* C7 as amended: after compile_actions returns, stop_time is at least the
\* time of the last recorded check and of the last recorded print, provided
\* no explicit Poke delay and no Delay duration of the list is negative.
C7_StopTimeCoversChecksNonNegative ==
    (pc = "compiled" /\ NonNegativeDelays(actions)) =>
        /\ LastTimeAtMost(comp.checks, comp.stop_time)
        /\ LastTimeAtMost(comp.prints, comp.stop_time)

C7_Witness ==
    /\ pc = "compiled"
    /\ NonNegativeDelays(actions)
    /\ comp.checks # <<>>
    /\ comp.checks[Len(comp.checks)][1] > 0
    /\ comp.stop_time = comp.checks[Len(comp.checks)][1]

\* C8: compiling an Expect or a Print leaves the clock and every port's
\* accumulators unchanged and only appends <<t, action>> to checks or to
\* prints and adds names to saves; a Delay changes only the clock.
C8_ExpectPrintDelayFrame ==
    [][(pc = "loop" /\ idx <= Len(_actions) /\ idx' = idx + 1)
        => LET a == _actions[idx] IN
           /\ a.kind = "Expect" =>
                /\ t' = t /\ pwc_dict' = pwc_dict /\ prints' = prints
                /\ checks' = Append(checks, <<t, a>>)
                /\ saves' = saves \cup {a.port.name}
           /\ a.kind = "Print" =>
                /\ t' = t /\ pwc_dict' = pwc_dict /\ checks' = checks
                /\ prints' = Append(prints, <<t, a>>)
                /\ saves' = saves \cup {a.ports[j].name : j \in DOMAIN a.ports}
           /\ a.kind = "Delay" =>
                /\ t' = t + a.time
                /\ pwc_dict' = pwc_dict /\ checks' = checks
                /\ prints' = prints /\ saves' = saves]_vars

\* an Expect compiled after a Poke: the check carries the clock the Poke left
C8_Witness ==
    /\ pc = "loop"
    /\ idx = 3
    /\ _actions[1].kind = "Poke"
    /\ _actions[2].kind = "Expect"
    /\ t = DefaultStep
    /\ checks = << <<t, _actions[2]>> >>
    /\ DOMAIN pwc_dict # {}

----------------------------------------------------------------------------
(* Properties of the constructor and of run (checked under Spec)            *)

Constructed == kwargs # <<>>

\* C4 as stated: constructing with a simulator name outside the three raises
\* the error and writes nothing: the working directory is not created and
\* no attribute of the object is set.
C4_BadSimulatorLeavesNothing ==
    (Constructed /\ kwargs.simulator \notin Simulators) =>
        /\ pc = "raised" /\ err = "ValueError"
        /\ ~dir_exists
        /\ DOMAIN self = {}

\* C4 as amended: constructing with a simulator name outside the three
\* raises the error and writes nothing: the working directory is not
\* created and none of the constructor's settings is saved on the object;
\* only the base constructor, which runs first, has bound the circuit.
C4_BadSimulatorSavesNoSetting ==
    (Constructed /\ kwargs.simulator \notin Simulators) =>
        /\ pc = "raised" /\ err = "ValueError"
        /\ ~dir_exists
        /\ DOMAIN self = {"circuit"}
        /\ tb_written = NoNetlist /\ cmds_run = <<>>

C4_Witness ==
    /\ Constructed
    /\ kwargs.simulator = "xyce"
    /\ err = "ValueError"

ConfigErrors == {"ParseNotImplemented", "UnknownConnOrder", "UnknownBusDelimiter"}

\* C5 as stated: the error for the 'parse' ordering mode, an unknown ordering
\* mode or an unknown bus delimiter is raised before any file or process
\* I/O: before the working directory is created, before the netlist is
\* written and before any simulator command is run.
C5_ConfigErrorBeforeAnyIO ==
    err \in ConfigErrors =>
        /\ ~dir_exists
        /\ tb_written = NoNetlist
        /\ cmds_run = <<>>

\* C5 as amended: the error for the 'parse' ordering mode, an unknown
\* ordering mode or an unknown bus delimiter is raised by run, after the
\* constructor has created the working directory, and before the netlist is
\* written and before any simulator command is run; with an ordering mode
\* other than 'alpha' no netlist is ever written and no command ever run.
C5_ConfigErrorBeforeNetlist ==
    /\ err \in ConfigErrors =>
        /\ pc = "raised"
        /\ dir_exists
        /\ tb_written = NoNetlist
        /\ cmds_run = <<>>
    /\ (pc \notin {"new", "raised"} /\ self.conn_order # "alpha") =>
        /\ tb_written = NoNetlist
        /\ cmds_run = <<>>
        /\ pc \in {"ready", "loop", "compiled"}
    /\ (pc = "raised" /\ comp # NoComp /\ tb_written = NoNetlist) =>
        err \in ConfigErrors \cup {"UnsupportedBusOrder"}

\* the error of the ordering mode, raised by write_test_bench after a compile
C5_Witness ==
    /\ err = "ParseNotImplemented"
    /\ comp # NoComp
    /\ dir_exists

HasOther(acts) ==
    \E i \in DOMAIN acts : acts[i].kind \notin {"Poke", "Expect", "Print", "Delay"}

\* C9 as stated: if the list holds an action that is no Poke, Expect, Print
\* or Delay, compile_actions raises the unsupported-action error and returns
\* nothing, wherever the action stands; no netlist is written, no command run.
C9_OtherActionRaises ==
    HasOther(actions) =>
        /\ pc \in {"loop", "raised"}
        /\ pc = "raised" => err = "NotImplementedError"
        /\ comp = NoComp
        /\ tb_written = NoNetlist
        /\ cmds_run = <<>>

\* C9 as amended: if the list holds an action that is no Poke, Expect, Print
\* or Delay, compile_actions raises and returns nothing, wherever the action
\* stands: the unsupported-action error, unless the expansion of a bus Poke
\* or Expect of the list has raised the unknown-delimiter error first; no
\* netlist is written and no command run.
C9_OtherActionRaisesUnlessExpansionDoes ==
    HasOther(actions) =>
        /\ pc \in {"loop", "raised"}
        /\ pc = "raised" =>
              err = IF ExpandRaises(self.bus_delim, actions)
                    THEN "UnknownBusDelimiter" ELSE "NotImplementedError"
        /\ comp = NoComp
        /\ tb_written = NoNetlist
        /\ cmds_run = <<>>

\* the unsupported action stands last, after an action that was compiled
C9_Witness ==
    /\ pc = "raised"
    /\ err = "NotImplementedError"
    /\ idx = 2
    /\ actions[1].kind = "Expect"
    /\ checks # <<>>

----------------------------------------------------------------------------
(* Properties of impl_expect (checked under SpecExpect)                     *)

\* the sampled value is at or below the low threshold vil_rel * vsup
AtOrBelowLow(sampled) == sampled * 10 <= self.vil_rel * self.vsup
\* the sampled value is at or above the high threshold vih_rel * vsup
AtOrAboveHigh(sampled) == sampled * 10 >= self.vih_rel * self.vsup

\* C10: on a single-bit digital port the sampled value v decodes to 0 when
\* v <= vil_rel * vsup, else to 1 when v >= vih_rel * vsup, and raises the
\* conversion error otherwise; on any other port no threshold is applied
\* and the raw sampled value is the one compared.
C10_Thresholding ==
    last # NoLast =>
        IF last.port.type = "Bit"
        THEN /\ AtOrBelowLow(last.sampled) =>
                  last.value = 0 /\ last.outcome # "A2DError"
             /\ (~AtOrBelowLow(last.sampled) /\ AtOrAboveHigh(last.sampled)) =>
                  last.value = 1 /\ last.outcome # "A2DError"
             /\ (~AtOrBelowLow(last.sampled) /\ ~AtOrAboveHigh(last.sampled)) =>
                  last.outcome = "A2DError"
             /\ last.outcome \in {"pass", "AssertionError"} =>
                  (last.outcome = "pass" <=> CheckHolds(last.action, last.value))
        ELSE /\ last.value = last.sampled
             /\ last.outcome \in {"pass", "AssertionError"}
             /\ last.outcome = "pass" <=> CheckHolds(last.action, last.sampled)

\* a level strictly between the thresholds on a digital bit
C10_Witness ==
    /\ last # NoLast
    /\ last.port.type = "Bit"
    /\ self.vil_rel < self.vih_rel
    /\ last.outcome = "A2DError"

\* a check of a single digital bit has been evaluated
BitChecked == last # NoLast /\ last.port.type = "Bit"

\* C11 as stated: for every configuration with vih_rel <= 1, a sampled value
\* equal to vsup on a single-bit digital port decodes to logic 1, for every
\* vsup and vil_rel.
C11_SupplyDecodesToOne ==
    (BitChecked /\ self.vih_rel <= 10 /\ last.sampled = self.vsup) =>
        /\ last.outcome # "A2DError"
        /\ last.value = 1

\* C11 as amended: for every configuration with vih_rel <= 1, vil_rel < 1 and
\* a positive vsup, a sampled value equal to vsup on a single-bit digital
\* port decodes to logic 1; with vil_rel >= 1 and a positive vsup it decodes
\* to logic 0, the low threshold being tested first.
C11_SupplyDecodesToOneBelowLowOne ==
    (BitChecked /\ self.vih_rel <= 10 /\ last.sampled = self.vsup
        /\ self.vsup > 0) =>
        /\ last.outcome # "A2DError"
        /\ last.value = IF self.vil_rel < 10 THEN 1 ELSE 0

\* the supply itself is sampled with the high threshold at the supply
C11_Witness ==
    /\ BitChecked
    /\ self.vsup = 18 /\ self.vih_rel = 10 /\ self.vil_rel = 6
    /\ last.sampled = self.vsup
    /\ last.value = 1
    /\ last.outcome = "pass"

\* the sampled value is (vil_rel * vsup + vih_rel * vsup) / 2
AtMidpoint(sampled) == sampled * 20 = (self.vil_rel + self.vih_rel) * self.vsup

\* the low threshold lies strictly below the high threshold
ThresholdsApart == self.vil_rel * self.vsup < self.vih_rel * self.vsup

\* C12 as stated: a sampled value on a single-bit digital port exactly at
\* the midpoint between the two thresholds raises the conversion error, for
\* every configured pair of thresholds.
C12_MidpointRaises ==
    (BitChecked /\ AtMidpoint(last.sampled)) => last.outcome = "A2DError"

\* C12 as amended: a sampled value on a single-bit digital port exactly at
\* the midpoint between the two thresholds raises the conversion error
\* whenever the low threshold vil_rel * vsup is strictly below the high
\* threshold vih_rel * vsup; otherwise the midpoint is at or below the low
\* threshold and decodes to logic 0.
C12_MidpointRaisesBetweenThresholds ==
    (BitChecked /\ AtMidpoint(last.sampled)) =>
        IF ThresholdsApart THEN last.outcome = "A2DError"
        ELSE last.outcome # "A2DError" /\ last.value = 0

\* 0.9 V sampled between the thresholds 0.72 V and 1.08 V
C12_Witness ==
    /\ BitChecked
    /\ self.vsup = 18 /\ self.vil_rel = 4 /\ self.vih_rel = 6
    /\ last.sampled = 9
    /\ last.outcome = "A2DError"

\* C14: impl_expect evaluates exactly one condition per check, chosen by the
\* fields that are set: above and below -> above <= value <= below; only
\* above -> above <= value; only below -> value <= below; neither -> value
\* equals the expected value.  With above or below set the expected value is
\* not compared.
C14_OneConditionPerCheck ==
    (last # NoLast /\ last.outcome \in {"pass", "AssertionError"}) =>
        LET a == last.action
            v == last.value
            passed == last.outcome = "pass"
        IN  /\ (a.above # None /\ a.below # None) =>
                  (passed <=> (a.above[1] <= v /\ v <= a.below[1]))
            /\ (a.above # None /\ a.below = None) => (passed <=> a.above[1] <= v)
            /\ (a.above = None /\ a.below # None) => (passed <=> v <= a.below[1])
            /\ (a.above = None /\ a.below = None) => (passed <=> v = a.value.n)

\* a lower bound alone passes on a value that differs from the expected one
C14_Witness ==
    /\ last # NoLast
    /\ last.action.above # None /\ last.action.below = None
    /\ last.outcome = "pass"
    /\ last.value # last.action.value.n

----------------------------------------------------------------------------
(* Properties of the stages of run (checked under Spec)                     *)

\* the errors a check raises
CheckErrors == {"AssertionError", "A2DError", "KeyError"}

\* the last evaluation is that of the k-th recorded check
LastIsCheck(k) ==
    /\ k \in DOMAIN comp.checks
    /\ last.time = comp.checks[k][1]
    /\ last.action = comp.checks[k][2]

\* C13: check_results evaluates the recorded checks in recorded order and
\* stops at the first failure: once a check raises, no later check is sampled
\* or evaluated, and every check before it has passed.
C13_StopOnFirstFailure ==
    /\ [](last # NoLast =>
            IF last.outcome = "pass"
            THEN /\ LastIsCheck(nchecked)
                 /\ err = ""
            ELSE /\ LastIsCheck(nchecked + 1)
                 /\ pc = "raised"
                 /\ err = last.outcome)
    /\ [](err \in CheckErrors => (last # NoLast /\ last.outcome = err))
    /\ [][/\ nchecked' # nchecked =>
                /\ nchecked' = nchecked + 1
                /\ last'.outcome = "pass"
          /\ last' # last => (pc = "checking" /\ err = "")
          /\ pc = "raised" => (last' = last /\ nchecked' = nchecked)]_vars

\* the second of three checks fails after the first has passed
C13_Witness ==
    /\ pc = "raised"
    /\ err \in {"AssertionError", "A2DError"}
    /\ Len(comp.checks) = 3
    /\ nchecked = 1
    /\ LastIsCheck(2)

\* the rendering of the i-th recorded print: its time and the names sampled
Rendered(i) ==
    <<comp.prints[i][1],
      [j \in DOMAIN comp.prints[i][2].ports |-> comp.prints[i][2].ports[j].name]>>

\* a check has been evaluated, or the checks are about to be
ChecksStarted ==
    \/ last # NoLast
    \/ nchecked > 0
    \/ err \in CheckErrors
    \/ pc \in {"checking", "done"}

\* C15: in a run every recorded print is rendered, in recorded order, before
\* the first check is evaluated; a failing check, even one recorded at an
\* earlier time than a print, suppresses no print.
C15_PrintsBeforeChecks ==
    ChecksStarted =>
        /\ Len(printed) = Len(comp.prints)
        /\ \A i \in DOMAIN comp.prints : printed[i] = Rendered(i)

\* the first check fails; a print recorded at a later time has been rendered
C15_Witness ==
    /\ pc = "raised"
    /\ err \in {"AssertionError", "A2DError"}
    /\ nchecked = 0
    /\ comp.prints # <<>>
    /\ comp.checks[1][1] < comp.prints[1][1]
    /\ printed = <<Rendered(1)>>

\* the stages of run in their order, and the stage each may pass to
StageOrder ==
    {<<"ready", "loop">>, <<"loop", "compiled">>, <<"compiled", "written">>,
     <<"written", "simulating">>, <<"simulating", "parsed">>,
     <<"parsed", "checking">>, <<"checking", "done">>}

AllExitedZero == \A i \in DOMAIN exit_codes : exit_codes[i] = 0

\* C16: run executes its stages strictly in the order compile -> write
\* netlist -> run each command in list order -> parse -> print -> check; if a
\* command exits nonzero the error propagates, no later command runs, the
\* trace is not parsed, no print or check is performed; no command is retried.
C16_StagesInOrder ==
    /\ [](/\ tb_written # NoNetlist => comp # NoComp
          /\ sim_cmds # <<>> => tb_written # NoNetlist
          /\ Len(cmds_run) <= Len(sim_cmds)
          /\ cmds_run = SubSeq(sim_cmds, 1, Len(cmds_run))
          /\ Len(exit_codes) = Len(cmds_run)
          /\ \A i \in DOMAIN exit_codes :
                exit_codes[i] # 0 =>
                    /\ i = Len(exit_codes)
                    /\ pc = "raised" /\ err = "CalledProcessError"
                    /\ results = {} /\ printed = <<>>
                    /\ nchecked = 0 /\ last = NoLast
          /\ pc \in {"parsed", "checking", "done"} =>
                (sim_cmds # <<>> /\ cmds_run = sim_cmds /\ AllExitedZero)
          /\ pc = "parsed" => (printed = <<>> /\ last = NoLast /\ nchecked = 0))
    /\ [][/\ (pc' # pc /\ pc # "new") => (pc' = "raised" \/ <<pc, pc'>> \in StageOrder)
          /\ comp' # comp => (pc = "loop" /\ pc' = "compiled")
          /\ tb_written' # tb_written => (pc = "compiled" /\ pc' = "written")
          /\ sim_cmds' # sim_cmds => (pc = "written" /\ pc' = "simulating")
          /\ cmds_run' # cmds_run =>
                (pc = "simulating" /\ AllExitedZero
                    /\ cmds_run' = Append(cmds_run, sim_cmds[Len(cmds_run) + 1]))
          /\ results' # results => (pc = "simulating" /\ pc' = "parsed")
          /\ pc' = "parsed" => (cmds_run = sim_cmds /\ AllExitedZero)
          /\ printed' # printed => (pc = "parsed" /\ pc' = "checking")
          /\ (last' # last \/ nchecked' # nchecked) => pc = "checking"]_vars

\* the first of the two commands exits nonzero: the second one never runs
C16_Witness ==
    /\ pc = "raised"
    /\ err = "CalledProcessError"
    /\ Len(sim_cmds) = 2
    /\ Len(cmds_run) = 1
    /\ exit_codes = <<1>>
    /\ comp.checks # <<>>

\* the command list of the configured simulator has been generated
CmdsGenerated == pc \in {"simulating", "parsed", "checking", "done"} \/ sim_cmds # <<>>

\* C17: the command list of hspice has length 2 (simulate, then convert) and
\* the command lists of ngspice and spectre have length 1, for every netlist
\* path and every list of extra flags.
C17_CommandListLengths ==
    CmdsGenerated =>
        IF self.simulator = "hspice"
        THEN /\ Len(sim_cmds) = 2
             /\ sim_cmds[1][1] = "hspice"
             /\ sim_cmds[2][1] = "converter"
        ELSE /\ Len(sim_cmds) = 1
             /\ sim_cmds[1][1] = self.simulator

\* hspice on the scalar circuit with two extra flags
C17_Witness ==
    /\ CmdsGenerated
    /\ self.simulator = "hspice"
    /\ self.flags = <<"-mt", "4">>
    /\ tb_written.file = "build/amp_tb.sp"
    /\ Len(sim_cmds) = 2

\* the extra flags the user handed to the constructor, none if omitted
UserFlags == IF kwargs.flags = None THEN <<>> ELSE kwargs.flags[1]

\* the command ends with the user's flags, after at least its program name
FlagsAppended(cmd) ==
    /\ Len(cmd) > Len(UserFlags)
    /\ SubSeq(cmd, Len(cmd) - Len(UserFlags) + 1, Len(cmd)) = UserFlags

\* C18 as stated: every command generated for any backend, the conversion
\* command of hspice included, carries the user's extra flags appended
\* verbatim after the command's own arguments.
C18_EveryCommandCarriesFlags ==
    \A i \in DOMAIN sim_cmds : FlagsAppended(sim_cmds[i])

\* C18 as amended: the simulation command generated for any backend carries
\* the user's extra flags appended verbatim (same elements, same order)
\* after the command's own arguments; the conversion command of hspice is
\* built from its own arguments alone, ends with -a and carries no flag.
C18_SimulationCommandCarriesFlags ==
    CmdsGenerated =>
        /\ FlagsAppended(sim_cmds[1])
        /\ sim_cmds[1][1] = self.simulator
        /\ tb_written.file \in Range(SubSeq(sim_cmds[1], 1,
                                             Len(sim_cmds[1]) - Len(UserFlags)))
        /\ \A i \in DOMAIN sim_cmds :
              i > 1 => /\ sim_cmds[i][Len(sim_cmds[i])] = "-a"
                       /\ Range(sim_cmds[i]) \cap Range(UserFlags) = {}

\* hspice with two extra flags: the simulation carries them, the converter not
C18_Witness ==
    /\ CmdsGenerated
    /\ UserFlags = <<"-mt", "4">>
    /\ Len(sim_cmds) = 2
    /\ FlagsAppended(sim_cmds[1])
    /\ ~FlagsAppended(sim_cmds[2])

\* the names of the circuit's ports in lexical order
LexicalNames(circuit) ==
    SelectSeq(NameOrder, LAMBDA n : \E q \in Range(circuit.ports) : q.name = n)

PortNamed(circuit, n) == CHOOSE q \in Range(circuit.ports) : q.name = n

\* the port list: every scalar its own name, every bus its bits in place
PortList(circuit, delim, order) ==
    LET names == LexicalNames(circuit) IN
    Flatten([i \in DOMAIN names |->
                LET q == PortNamed(circuit, names[i]) IN
                IF q.type = "Bits"
                THEN [j \in 1..q.len |-> BitPortsOf([port |-> q], delim, order)[j].name]
                ELSE <<names[i]>>])

Configured == "conn_order" \in DOMAIN self

----------------------------------------------------------------------------
(* Properties of the compiled waveforms (checked under SpecCompile)         *)

\* the steps of a port as the waveform sees them: the initial value is held
\* from time 0 when the first step comes later
StepsFromZero(steps, init) ==
    IF steps[1][1] # 0 THEN << <<0, init>> >> \o steps ELSE steps

\* the waveform holds prev until time tk and reaches new at tk + t_tr
HasRamp(w, tk, prev, new) ==
    \E j \in 1..(Len(w) - 1) :
        /\ w[j] = <<tk, prev>>
        /\ w[j + 1] = <<tk + self.t_tr, new>>

\* every transition between two distinct consecutive levels is such a ramp
RampsAtSteps(w, steps) ==
    \A k \in 2..Len(steps) :
        steps[k - 1][2] # steps[k][2] =>
            HasRamp(w, steps[k][1], steps[k - 1][2], steps[k][2])

\* the breakpoints are strictly increasing in time and span [0, stop]
IncreasingWithin(w, stop) ==
    /\ \A j \in 1..(Len(w) - 1) : w[j][1] < w[j + 1][1]
    /\ w[1][1] = 0
    /\ w[Len(w)][1] = stop

WaveformOK(w, steps, stop) ==
    /\ RampsAtSteps(w, steps)
    /\ IncreasingWithin(w, stop)

\* the steps start at a time >= 0, follow one another by more than t_tr and
\* the last one comes more than t_tr before stop
WellSpaced(steps, stop) ==
    /\ steps[1][1] >= 0
    /\ \A k \in 1..(Len(steps) - 1) : steps[k + 1][1] > steps[k][1] + self.t_tr
    /\ stop > steps[Len(steps)][1] + self.t_tr

----------------------------------------------------------------------------
(* Further properties of compile_actions (checked under SpecCompile)        *)

\* C21: for a Poke whose value is not high impedance, on a single-bit digital
\* port the stimulus value is vsup when the value is truthy and 0 when it is
\* falsy, with switch state 1; on any other port the action's value is
\* recorded unchanged, with switch state 1.
C21_DrivenPokeStimulus ==
    [][(AtPoke /\ ~_actions[idx].value.hiz /\ idx' = idx + 1)
        => LET a == _actions[idx]
               name == a.port.name
               level == IF a.port.type = "Bit"
                        THEN (IF a.value.n # 0 THEN self.vsup ELSE 0)
                        ELSE a.value.n
           IN  /\ StepsOf(pwc_dict', name, 1)
                    = Append(StepsOf(pwc_dict, name, 1), <<t, level>>)
               /\ StepsOf(pwc_dict', name, 2)
                    = Append(StepsOf(pwc_dict, name, 2), <<t, 1>>)]_vars

\* an analog port poked to 0.7 V, then a digital bit poked with the value 2
C21_Witness ==
    /\ Len(_actions) = 2
    /\ idx = 3
    /\ _actions[2].kind = "Poke"
    /\ _actions[2].value = Val(2)
    /\ DOMAIN pwc_dict = {<<"a">>, <<"v">>}
    /\ pwc_dict[<<"v">>] = << << <<0, 7>> >>, << <<0, 1>> >> >>
    /\ pwc_dict[<<"a">>] = << << <<DefaultStep, vsup>> >>, << <<DefaultStep, 1>> >> >>

\* the action is a Poke or an Expect on a bus
OnBus(a) == a.kind \in {"Poke", "Expect"} /\ a.port.type = "Bits"

\* the number of actions the expansion puts in the place of the action
WidthOf(a) == IF OnBus(a) THEN a.port.len ELSE 1

\* the number of expanded actions that stand before those of acts[i]
RECURSIVE OffsetOf(_, _)
OffsetOf(acts, i) ==
    IF i = 1 THEN 0 ELSE OffsetOf(acts, i - 1) + WidthOf(acts[i - 1])

\* the expanded action that stands for bit k of the bus action acts[i]
BitAction(i, k) == _actions[OffsetOf(actions, i) + k + 1]

\* bit k, counted from the least significant, of n taken as a word of N bits
BitOfWord(n, k, N) == ((n % Pow2(N)) \div Pow2(k)) % 2

\* C22: the single-bit action for bit index k carries bit k (index 0 the
\* least significant) of the action's value taken as an N-bit word; when the
\* value is high impedance every one of the N expanded actions carries high
\* impedance.
C22_BitKOfValue ==
    Expanded =>
        \A i \in DOMAIN actions :
            OnBus(actions[i]) =>
                \A k \in 0..(actions[i].port.len - 1) :
                    BitAction(i, k).value
                        = IF actions[i].value.hiz THEN HiZ
                          ELSE Val(BitOfWord(actions[i].value.n, k,
                                             actions[i].port.len))

\* a bus poked with the value 1, then released: bit 0 is 1, the others 0
C22_Witness ==
    /\ pc = "loop"
    /\ Len(actions) = 2
    /\ OnBus(actions[1]) /\ actions[1].value = Val(1)
    /\ OnBus(actions[2]) /\ actions[2].value = HiZ
    /\ BitAction(1, 0).value = Val(1)
    /\ BitAction(1, BusWidth - 1).value = Val(0)
    /\ BitAction(2, 0).value = HiZ
    /\ Len(_actions) = 2 * BusWidth

----------------------------------------------------------------------------
(* The names of the recorded signals (checked under Spec)                   *)

\* C24: for every recorded check, the signal name impl_expect looks up in
\* the simulation result is the name compile_actions added to the set of
\* recorded signals for that check, for every port name, hierarchical
\* (dot-separated) names included; so a check never samples a signal the
\* simulator was not asked to record.
C24_LookupIsRecordedName ==
    /\ \A i \in DOMAIN checks :
          /\ ResultName(checks[i][2].port) = checks[i][2].port.name
          /\ ResultName(checks[i][2].port) \in saves
    /\ last # NoLast => ResultName(last.port) \in tb_written.probes

----------------------------------------------------------------------------
(* The accumulators of compile_actions (checked under SpecCompile)          *)

\* the time by which an action of the expanded list advances the clock
AdvanceOf(a) ==
    IF a.kind = "Poke"
    THEN (IF a.delay = None THEN self.clock_step_delay * 10 ELSE a.delay[1])
    ELSE IF a.kind = "Delay" THEN a.time ELSE 0

\* the clock before the j-th action of the expanded list: 0 before the first
RECURSIVE ClockBefore(_)
ClockBefore(j) ==
    IF j = 1 THEN 0 ELSE ClockBefore(j - 1) + AdvanceOf(_actions[j - 1])

\* the clock values before the Pokes on the port among actions j..n, in order
RECURSIVE StampsOf(_, _, _)
StampsOf(name, j, n) ==
    IF j > n THEN <<>>
    ELSE (IF _actions[j].kind = "Poke" /\ _actions[j].port.name = name
          THEN <<ClockBefore(j)>> ELSE <<>>)
         \o StampsOf(name, j + 1, n)

\* the names of the ports poked among the first n actions of the expanded list
PokedNames(n) ==
    {_actions[j].port.name : j \in {k \in 1..n : _actions[k].kind = "Poke"}}

TimesOf(pairs) == [k \in DOMAIN pairs |-> pairs[k][1]]

NonDecreasing(ts) == \A k \in 1..(Len(ts) - 1) : ts[k] <= ts[k + 1]

\* C25: after any action sequence the ports that have waveforms are the
\* ports that were poked, and for each of them the voltage accumulator and
\* the switch accumulator have the same length and the same timestamps, one
\* entry per Poke on the port stamped with the clock before that Poke's
\* advance (0 for the first action); with non-negative delays the timestamps
\* of each port, of the checks and of the prints are non-decreasing.
C25_AccumulatorsFollowPokes ==
    Expanded =>
        /\ DOMAIN pwc_dict = PokedNames(idx - 1)
        /\ \A name \in DOMAIN pwc_dict :
              /\ TimesOf(pwc_dict[name][1]) = StampsOf(name, 1, idx - 1)
              /\ TimesOf(pwc_dict[name][2]) = StampsOf(name, 1, idx - 1)
        /\ pc = "compiled" => DOMAIN comp.pwls = PokedNames(Len(_actions))
        /\ NonNegativeDelays(actions) =>
              /\ \A name \in DOMAIN pwc_dict :
                    NonDecreasing(TimesOf(pwc_dict[name][1]))
              /\ NonDecreasing(TimesOf(checks))
              /\ NonDecreasing(TimesOf(prints))

\* one port poked twice, at 0 and one default step later
C25_Witness ==
    /\ pc = "compiled"
    /\ NonNegativeDelays(actions)
    /\ DOMAIN comp.pwls = {<<"a">>}
    /\ TimesOf(pwc_dict[<<"a">>][1]) = <<0, DefaultStep>>
    /\ TimesOf(pwc_dict[<<"a">>][2]) = <<0, DefaultStep>>

====
